---- MODULE Spec2Model ----
(***************************************************************************)
(* A model of rush-lib's RushPnpmCommandLineParser                         *)
(* (libraries/rush-lib/src/cli/RushPnpmCommandLineParser.ts): the          *)
(* "rush-pnpm" wrapper that validates the command line meant for pnpm,     *)
(* builds the environment, spawns pnpm synchronously, forwards its exit    *)
(* code and, after a successful "patch-commit", syncs the patch files.     *)
(*                                                                         *)
(* Command line tokens are TLA+ strings; TLC implements Len and SubSeq on  *)
(* strings, so the verb pattern is computed character by character.        *)
(***************************************************************************)
EXTENDS Integers, Sequences, FiniteSets, TLC

VARIABLES
  pc,                 \* position of the program (see the actions)
  config,             \* what the configuration provider and the file system report
  processEnv,         \* process.env
  argv,               \* process.argv.slice(2), as typed by the user
  pnpmArgs,           \* the array handed to _validatePnpmUsage (mutated in place)
  decision,           \* outcome of the last _validatePnpmUsage call ("none" before)
  validateLog,        \* the _validatePnpmUsage calls made: argument and result, in order
  constructorResult,  \* "none" | "ok" | "prerequisite" | "reject"
  rushConfiguration,  \* this._rushConfiguration
  thisPnpmArgs,       \* this._pnpmArgs
  commandName,        \* this._commandName
  terminal,           \* what was written to the terminal, in order
  exitCode,           \* process.exitCode
  spawnLog,           \* the Executable.spawnSync calls made, in order
  fsLog,              \* the file-system writes made, in order
  tempPatchesExists   \* whether common/temp/patches exists

vars == <<pc, config, processEnv, argv, pnpmArgs, decision, validateLog,
          constructorResult, rushConfiguration, thisPnpmArgs, commandName,
          terminal, exitCode, spawnLog, fsLog, tempPatchesExists>>

-----------------------------------------------------------------------------
(* Bounds of the model *)

\* longest command line of the invocation specification
MaxArgs == 3
\* longest command line of the classification specification
MaxLen == 3
\* the child's exit statuses are 0..MaxStatus
MaxStatus == 2
\* number of _validatePnpmUsage calls made on one array in the classification specification
MaxCalls == 2
\* most entries of pnpmOptions.environmentVariables in the environment specification
MaxOverrides == 2

-----------------------------------------------------------------------------
(* Values *)

RUSH_SKIP_CHECKS_PARAMETER == "--rush-skip-checks"

\* JavaScript's undefined, for string-valued fields
UNDEFINED == "<undefined>"

\* process.exitCode before anything assigns it
ExitCodeUnset == -1

\* an optional array (this._pnpmArgs) and an optional object (this._rushConfiguration)
Unassigned == [assigned |-> FALSE]
Assigned(v) == [assigned |-> TRUE, value |-> v]

LowerCaseLetters ==
  {"a","b","c","d","e","f","g","h","i","j","k","l","m",
   "n","o","p","q","r","s","t","u","v","w","x","y","z"}

Digits == {"0","1","2","3","4","5","6","7","8","9"}

CharAt(s, i) == SubSeq(s, i, i)

-----------------------------------------------------------------------------
(* Terminal output: the stream, which message, and the token it quotes *)

ErrorLine(text, arg) == [stream |-> "error", text |-> text, arg |-> arg]
WarningLine(text, arg) == [stream |-> "warning", text |-> text, arg |-> arg]
Line(text, arg) == [stream |-> "line", text |-> text, arg |-> arg]

BYPASS_NOTICE == Line("To bypass this check, add ... as the very first command line option.",
                      RUSH_SKIP_CHECKS_PARAMETER)

-----------------------------------------------------------------------------
(* _validatePnpmUsage, piece by piece *)

\* pnpmArgs[0] === RUSH_SKIP_CHECKS_PARAMETER
FirstIsSkipChecks(args) == Len(args) >= 1 /\ args[1] = RUSH_SKIP_CHECKS_PARAMETER

\* a variant that leaves the array as it is
Shift_NothingRemoved(args) == args

\* pnpmArgs.shift()
Shift(args) == Tail(args)

\* pnpmArgs.includes(x)
Includes(args, x) == \E i \in 1..Len(args) : args[i] = x

\* a variant that looks for a help flag in the first position only
IncludesHelp_FirstOnly(args) == Len(args) >= 1 /\ args[1] \in {"-h", "--help", "-?"}

\* pnpmArgs.includes('-h') || pnpmArgs.includes('--help') || pnpmArgs.includes('-?')
IncludesHelp(args) == Includes(args, "-h") \/ Includes(args, "--help") \/ Includes(args, "-?")

\* a variant that accepts a leading version flag whatever follows it
IsVersionOnly_AnyLength(args) == Len(args) >= 1 /\ (args[1] = "-v" \/ args[1] = "--version")

\* pnpmArgs.length === 1 && (firstArg === '-v' || firstArg === '--version')
IsVersionOnly(args) == Len(args) = 1 /\ (args[1] = "-v" \/ args[1] = "--version")

\* /^[a-z]+([a-z0-9\-])*$/.test(firstArg)
MatchesVerbPattern(firstArg) ==
  /\ Len(firstArg) >= 1
  /\ CharAt(firstArg, 1) \in LowerCaseLetters
  /\ \A i \in 2..Len(firstArg) :
       CharAt(firstArg, i) \in LowerCaseLetters \cup Digits \cup {"-"}

\* pnpmArgs[1] === RUSH_SKIP_CHECKS_PARAMETER
SecondIsSkipChecks(args) == Len(args) >= 2 /\ args[2] = RUSH_SKIP_CHECKS_PARAMETER

\* a variant that removes every occurrence of the parameter after the verb
Splice11_AllRemoved(args) ==
  <<args[1]>> \o SelectSeq(Tail(args), LAMBDA x : x # RUSH_SKIP_CHECKS_PARAMETER)

\* pnpmArgs.splice(1, 1)
Splice11(args) == <<args[1]>> \o SubSeq(args, 3, Len(args))

\* a variant in which the check for a misplaced parameter is missing
IndexOfSkipChecksFound_Never(args) == FALSE

\* pnpmArgs.indexOf(RUSH_SKIP_CHECKS_PARAMETER) >= 0
IndexOfSkipChecksFound(args) == Includes(args, RUSH_SKIP_CHECKS_PARAMETER)

\* variants of the case labels without the synonyms
WarnCommands_WithoutSynonyms == {"link", "remove", "unlink", "update"}
KnownSafeCommands_WithoutSynonyms ==
  {"audit", "exec", "list", "outdated", "pack", "patch", "patch-commit", "prune",
   "publish", "rebuild", "root", "run", "start", "store", "test", "why"}

\* the case labels of the switch
BlockedCommands == {"import"}
InstallCommands == {"add", "install", "i", "install-test", "it"}
WarnCommands == {"link", "ln", "remove", "rm", "unlink", "update", "up"}
KnownSafeCommands ==
  {"audit", "exec", "list", "ls", "outdated", "pack", "patch", "patch-commit", "prune",
   "publish", "rebuild", "rb", "root", "run", "start", "store", "test", "t", "why"}

\* which arm of switch (commandName) is taken
SwitchArm(name) ==
  IF name \in BlockedCommands THEN "blocked"
  ELSE IF name \in InstallCommands THEN "install"
  ELSE IF name \in WarnCommands THEN "warn"
  ELSE IF name \in KnownSafeCommands THEN "safe"
  ELSE "default"

\* what the taken arm writes, and whether it throws AlreadyReportedError
ArmOutput(name) ==
  CASE SwitchArm(name) = "blocked" ->
         <<ErrorLine("The pnpm command is known to be incompatible with Rush's environment.", name),
           BYPASS_NOTICE>>
    [] SwitchArm(name) = "install" ->
         <<ErrorLine("The pnpm command is incompatible with Rush's environment. Use rush install or rush update.", name),
           BYPASS_NOTICE>>
    [] SwitchArm(name) = "warn" ->
         <<WarningLine("The pnpm command makes changes that may invalidate Rush's workspace state.", name),
           WarningLine("Consider running rush install or rush update afterwards.", "")>>
    [] SwitchArm(name) = "safe" -> <<>>
    [] OTHER ->
         <<ErrorLine("The pnpm command has not been tested with Rush's environment. It may be incompatible.", name),
           BYPASS_NOTICE>>

ArmThrows(name) == SwitchArm(name) \in {"blocked", "install", "default"}

\* a variant in which a recorded verb has been taken off the array (firstArg read
\* with shift())
Returned_VerbShifted(args, name, out) ==
  [pnpmArgs |-> IF Len(args) >= 1 /\ args[1] = name THEN Tail(args) ELSE args,
   commandName |-> name, out |-> out, threw |-> FALSE]

\* the result of one call: the array as the call leaves it, this._commandName
\* after the call, the lines written, and whether AlreadyReportedError was thrown
Returned(args, name, out) == [pnpmArgs |-> args, commandName |-> name, out |-> out, threw |-> FALSE]
Thrown(args, name, out) == [pnpmArgs |-> args, commandName |-> name, out |-> out, threw |-> TRUE]

\* _validatePnpmUsage(pnpmArgs), called with this._commandName = name0
ValidatePnpmUsage(args, name0) ==
  IF FirstIsSkipChecks(args) THEN Returned(Shift(args), name0, <<>>)
  ELSE IF Len(args) = 0 THEN Returned(args, name0, <<>>)
  ELSE IF IncludesHelp(args) THEN Returned(args, name0, <<>>)
  ELSE IF IsVersionOnly(args) THEN Returned(args, name0, <<>>)
  ELSE IF ~MatchesVerbPattern(args[1]) THEN
    Thrown(args, name0,
           <<ErrorLine("The rush-pnpm wrapper expects a command verb before", args[1]),
             BYPASS_NOTICE>>)
  ELSE IF SecondIsSkipChecks(args) THEN Returned(Splice11(args), name0, <<>>)
  ELSE IF IndexOfSkipChecksFound(args) THEN
    Thrown(args, name0,
           <<ErrorLine("The option must be the first parameter for the rush-pnpm command.",
                       RUSH_SKIP_CHECKS_PARAMETER)>>)
  ELSE IF ArmThrows(args[1]) THEN Thrown(args, args[1], ArmOutput(args[1]))
  ELSE Returned(args, args[1], ArmOutput(args[1]))

\* the PolicyDecision a call amounts to
DecisionOf(r) ==
  IF r.threw THEN "Reject"
  ELSE IF \E i \in 1..Len(r.out) : r.out[i].stream = "warning" THEN "AllowWithWarning"
  ELSE "Allow"

-----------------------------------------------------------------------------
(* _execute: the environment handed to pnpm *)

WORKSPACE_DIR_KEY == "NPM_CONFIG_WORKSPACE_DIR"
STORE_DIR_KEY == "NPM_CONFIG_STORE_DIR"

\* the environment variable names of the model
EnvKeys == {WORKSPACE_DIR_KEY, STORE_DIR_KEY, "KEY"}

\* EnvironmentMap.get and EnvironmentMap.set; an absent name reads as undefined
EnvGet(env, key) == env[key]
EnvSet(env, key, value) == [env EXCEPT ![key] = value]

\* a variant that sets the variable whatever the override flag says
ApplyEnvironmentVariable_AlwaysSets(env, entry) == EnvSet(env, entry.key, entry.value)

\* one round of the loop over pnpmOptions.environmentVariables
ApplyEnvironmentVariable(env, entry) ==
  IF entry.override THEN EnvSet(env, entry.key, entry.value)
  ELSE IF EnvGet(env, entry.key) = UNDEFINED THEN EnvSet(env, entry.key, entry.value)
  ELSE env

RECURSIVE ApplyEnvironmentVariables(_, _)
ApplyEnvironmentVariables(env, entries) ==
  IF entries = <<>> THEN env
  ELSE ApplyEnvironmentVariables(ApplyEnvironmentVariable(env, Head(entries)), Tail(entries))

\* a variant that starts from an empty map instead of process.env
PnpmEnvironmentMap_ProcessEnvNotCopied(env, cfg) ==
  LET empty == [k \in EnvKeys |-> UNDEFINED]
      withWorkspace == EnvSet(empty, WORKSPACE_DIR_KEY, cfg.commonTempFolder)
      withStore == IF cfg.pnpmStorePath # UNDEFINED
                   THEN EnvSet(withWorkspace, STORE_DIR_KEY, cfg.pnpmStorePath)
                   ELSE withWorkspace
  IN ApplyEnvironmentVariables(withStore, cfg.environmentVariables)

\* pnpmEnvironmentMap as _execute builds it from process.env and the configuration
PnpmEnvironmentMap(env, cfg) ==
  LET withWorkspace == EnvSet(env, WORKSPACE_DIR_KEY, cfg.commonTempFolder)
      withStore == IF cfg.pnpmStorePath # UNDEFINED
                   THEN EnvSet(withWorkspace, STORE_DIR_KEY, cfg.pnpmStorePath)
                   ELSE withWorkspace
  IN ApplyEnvironmentVariables(withStore, cfg.environmentVariables)

-----------------------------------------------------------------------------
(* What Executable.spawnSync can answer *)

SpawnThrows == [kind |-> "throws"]
SpawnError == [kind |-> "error"]
SpawnNoStatus == [kind |-> "null"]
SpawnExit(status) == [kind |-> "exit", status |-> status]

\* a file that does not exist cannot be run; otherwise any answer is possible
SpawnOutcomes(cfg) ==
  IF cfg.packageManagerToolExists
  THEN {SpawnThrows, SpawnError, SpawnNoStatus} \cup {SpawnExit(n) : n \in 0..MaxStatus}
  ELSE {SpawnThrows, SpawnError}

-----------------------------------------------------------------------------
(* The inputs of the model *)

\* what the constructor's checks can find
PrerequisiteSettings ==
  [rushJsonFound : BOOLEAN,
   packageManager : {"pnpm", "npm"},
   useWorkspaces : BOOLEAN,
   workspaceFileExists : BOOLEAN,
   packageManagerToolExists : BOOLEAN]

\* the settings _execute reads: commonTempFolder, pnpmOptions.pnpmStorePath and
\* pnpmOptions.environmentVariables (in the order Object.entries gives them)
InvocationEnvironmentSettings ==
  {[commonTempFolder |-> "common/temp",
    pnpmStorePath |-> "store",
    environmentVariables |-> <<[key |-> "KEY", value |-> "override", override |-> FALSE]>>]}

Configurations(prerequisites, settings) == {p @@ e : p \in prerequisites, e \in settings}

\* a configuration that passes every check of the constructor
PrerequisitesHold(cfg) ==
  /\ cfg.rushJsonFound
  /\ cfg.packageManager = "pnpm"
  /\ cfg.useWorkspaces
  /\ cfg.workspaceFileExists
  /\ cfg.packageManagerToolExists

\* process.env with KEY set to v (or not set) and nothing else
ProcessEnv(v) == [k \in EnvKeys |-> IF k = "KEY" THEN v ELSE UNDEFINED]

\* the command lines of at most n tokens, the first from first, the others from rest
ArgLists(first, rest, n) ==
  {<<>>} \cup
  { <<f>> \o r : f \in IF n >= 1 THEN first ELSE {},
                 r \in UNION {[1..k -> rest] : k \in 0..(IF n >= 1 THEN n - 1 ELSE 0)} }

\* tokens of the invocation specification
InvocationTokens ==
  {RUSH_SKIP_CHECKS_PARAMETER, "patch-commit", "install", "update", "dlx", "--foo", "--help"}

InvocationArgLists == ArgLists(InvocationTokens, InvocationTokens, MaxArgs)

-----------------------------------------------------------------------------
(* The invocation: new RushPnpmCommandLineParser(options).execute() *)

Init ==
  /\ pc = "new"
  /\ config \in Configurations(PrerequisiteSettings, InvocationEnvironmentSettings)
  /\ processEnv = ProcessEnv("base")
  /\ argv \in InvocationArgLists
  /\ pnpmArgs = argv
  /\ decision = "none"
  /\ validateLog = <<>>
  /\ constructorResult = "none"
  /\ rushConfiguration = Unassigned
  /\ thisPnpmArgs = Unassigned
  /\ commandName = UNDEFINED
  /\ terminal = <<>>
  /\ exitCode = ExitCodeUnset
  /\ spawnLog = <<>>
  /\ fsLog = <<>>
  /\ tempPatchesExists \in BOOLEAN

\* what the catch block of the constructor writes for an Error that is not an
\* AlreadyReportedError
GenericError(message) == <<ErrorLine("ERROR: ", message)>>

\* the lines of the try block up to the first failing check: what is written, and
\* whether this._rushConfiguration was assigned before the throw (empty when no
\* check fails)
PrerequisiteFailure(cfg) ==
  IF ~cfg.rushJsonFound THEN
    [failed |-> TRUE, assigned |-> FALSE,
     out |-> GenericError("must be executed in a folder that is under a Rush workspace folder")]
  ELSE IF cfg.packageManager # "pnpm" THEN
    [failed |-> TRUE, assigned |-> TRUE,
     out |-> GenericError("requires your rush.json to be configured to use the PNPM package manager")]
  ELSE IF ~cfg.useWorkspaces THEN
    [failed |-> TRUE, assigned |-> TRUE,
     out |-> GenericError("requires the useWorkspaces setting to be enabled in rush.json")]
  ELSE IF ~cfg.workspaceFileExists THEN
    [failed |-> TRUE, assigned |-> TRUE,
     out |-> <<ErrorLine("Error: The PNPM workspace file has not been generated:", ""),
               ErrorLine("pnpm-workspace.yaml", ""),
               Line("Do you need to run rush install or rush update?", "")>>]
  ELSE IF ~cfg.packageManagerToolExists THEN
    [failed |-> TRUE, assigned |-> TRUE,
     out |-> <<ErrorLine("Error: The PNPM local binary has not been installed yet.", ""),
               Line("Do you need to run rush install or rush update?", "")>>]
  ELSE [failed |-> FALSE, assigned |-> TRUE, out |-> <<>>]

\* the constructor; it catches every error it raises and returns normally
Constructor ==
  /\ pc = "new"
  /\ pc' = "constructed"
  /\ LET p == PrerequisiteFailure(config)
         r == ValidatePnpmUsage(argv, commandName)
     IN /\ rushConfiguration' = IF p.assigned THEN Assigned(config) ELSE Unassigned
        /\ IF p.failed
           THEN /\ constructorResult' = "prerequisite"
                /\ terminal' = terminal \o p.out
                /\ UNCHANGED <<pnpmArgs, decision, validateLog, thisPnpmArgs, commandName>>
           ELSE /\ pnpmArgs' = r.pnpmArgs
                /\ decision' = DecisionOf(r)
                /\ validateLog' = Append(validateLog, [args |-> argv, result |-> r])
                /\ commandName' = r.commandName
                /\ terminal' = terminal \o r.out
                /\ constructorResult' = IF r.threw THEN "reject" ELSE "ok"
                /\ thisPnpmArgs' = IF r.threw THEN Unassigned ELSE Assigned(r.pnpmArgs)
  /\ UNCHANGED <<config, processEnv, argv, exitCode, spawnLog, fsLog, tempPatchesExists>>

\* execute(), first statement: process.exitCode = 1
ExecuteStart ==
  /\ pc = "constructed"
  /\ pc' = "execute"
  /\ exitCode' = 1
  /\ UNCHANGED <<config, processEnv, argv, pnpmArgs, decision, validateLog,
                 constructorResult, rushConfiguration, thisPnpmArgs, commandName,
                 terminal, spawnLog, fsLog, tempPatchesExists>>

\* _execute() with this._rushConfiguration undefined: reading commonTempFolder
\* throws a TypeError, which leaves execute()
ExecuteWithoutConfiguration ==
  /\ pc = "execute"
  /\ ~rushConfiguration.assigned
  /\ pc' = "threw"
  /\ UNCHANGED <<config, processEnv, argv, pnpmArgs, decision, validateLog,
                 constructorResult, rushConfiguration, thisPnpmArgs, commandName,
                 terminal, exitCode, spawnLog, fsLog, tempPatchesExists>>

\* the record of one Executable.spawnSync call
SpawnCall(cfg, args, env, outcome) ==
  [filename |-> cfg.packageManager, args |-> args,
   environmentMap |-> PnpmEnvironmentMap(env, cfg), outcome |-> outcome]

\* a variant that reports only success or failure instead of the child's status
AfterSpawn_SuccessOrFailure(outcome, code) ==
  IF outcome.kind = "exit"
  THEN [pc |-> "executed", exitCode |-> IF outcome.status = 0 THEN 0 ELSE 1]
  ELSE [pc |-> "threw", exitCode |-> code]

\* a variant without the check of result.status === null: the missing status is
\* assigned to process.exitCode, which then reads as success
AfterSpawn_NullNotChecked(outcome, code) ==
  IF outcome.kind = "exit" THEN [pc |-> "executed", exitCode |-> outcome.status]
  ELSE IF outcome.kind = "null" THEN [pc |-> "executed", exitCode |-> 0]
  ELSE [pc |-> "threw", exitCode |-> code]

\* lines 310-316: where _execute() goes after spawnSync answered, and the value
\* of process.exitCode it leaves (code is the value before)
AfterSpawn(outcome, code) ==
  IF outcome.kind = "exit"
  THEN [pc |-> "executed", exitCode |-> outcome.status]
  ELSE [pc |-> "threw", exitCode |-> code]

\* _execute(): build the environment, spawn, then throw or set process.exitCode
ExecuteSpawn ==
  /\ pc = "execute"
  /\ rushConfiguration.assigned
  /\ \E outcome \in SpawnOutcomes(rushConfiguration.value) :
       /\ spawnLog' = Append(spawnLog,
                             SpawnCall(rushConfiguration.value, thisPnpmArgs, processEnv, outcome))
       /\ exitCode' = AfterSpawn(outcome, exitCode).exitCode
       /\ pc' = AfterSpawn(outcome, exitCode).pc
  /\ UNCHANGED <<config, processEnv, argv, pnpmArgs, decision, validateLog,
                 constructorResult, rushConfiguration, thisPnpmArgs, commandName,
                 terminal, fsLog, tempPatchesExists>>

\* a variant that does not look for the temporary patches folder
PostExecuteSyncs_FolderNotChecked(name, exists) ==
  /\ name # UNDEFINED
  /\ name = "patch-commit"

\* whether _postExecute reaches the body of case 'patch-commit'
PostExecuteSyncs(name, exists) ==
  /\ name # UNDEFINED
  /\ name = "patch-commit"
  /\ exists

\* a variant that syncs the lockfile before it copies the patches
PatchCommitWrites_LockfileFirst == <<"syncFile", "copyFiles">>

\* the file-system writes of case 'patch-commit', in order
PatchCommitWrites == <<"copyFiles", "syncFile">>

\* execute(), after _execute(): if (process.exitCode === 0) this._postExecute()
ExecutePost ==
  /\ pc = "executed"
  /\ pc' = "done"
  /\ IF exitCode = 0 /\ PostExecuteSyncs(commandName, tempPatchesExists)
     THEN /\ fsLog' = fsLog \o PatchCommitWrites
          /\ terminal' = Append(terminal,
                                WarningLine("Rush refreshed the pnpm patch files. Please commit this change to Git.", ""))
     ELSE UNCHANGED <<fsLog, terminal>>
  /\ UNCHANGED <<config, processEnv, argv, pnpmArgs, decision, validateLog,
                 constructorResult, rushConfiguration, thisPnpmArgs, commandName,
                 exitCode, spawnLog, tempPatchesExists>>

Next ==
  \/ Constructor
  \/ ExecuteStart
  \/ ExecuteWithoutConfiguration
  \/ ExecuteSpawn
  \/ ExecutePost

Spec == Init /\ [][Next]_vars

-----------------------------------------------------------------------------
(* _validatePnpmUsage on its own: the state at the call in the constructor,   *)
(* for a wider set of command lines, and the call repeated on the array it    *)
(* leaves                                                                     *)

\* first tokens: every verb the switch names, verbs it does not name, and tokens
\* that are not verbs
FirstTokens ==
  {"import",
   "add", "install", "i", "install-test", "it",
   "link", "ln", "remove", "rm", "unlink", "update", "up",
   "audit", "exec", "list", "ls", "outdated", "pack", "patch", "patch-commit", "prune",
   "publish", "rebuild", "rb", "root", "run", "start", "store", "test", "t", "why",
   "dlx", "patch-remove", "x2",
   RUSH_SKIP_CHECKS_PARAMETER, "-h", "--help", "-?", "-v", "--version",
   "--foo", "Add", "2x", "add_x", ""}

RestTokens ==
  {RUSH_SKIP_CHECKS_PARAMETER, "-h", "--help", "-?", "-v", "--foo", "foo", "add", "list"}

ClassifyArgLists == ArgLists(FirstTokens, RestTokens, MaxLen)

AllPrerequisitesHold == {p \in PrerequisiteSettings : PrerequisitesHold(p)}

InitClassify ==
  /\ pc = "validate"
  /\ config \in Configurations(AllPrerequisitesHold, InvocationEnvironmentSettings)
  /\ processEnv = ProcessEnv("base")
  /\ argv \in ClassifyArgLists
  /\ pnpmArgs = argv
  /\ decision = "none"
  /\ validateLog = <<>>
  /\ constructorResult = "none"
  /\ rushConfiguration = Assigned(config)
  /\ thisPnpmArgs = Unassigned
  /\ commandName = UNDEFINED
  /\ terminal = <<>>
  /\ exitCode = ExitCodeUnset
  /\ spawnLog = <<>>
  /\ fsLog = <<>>
  /\ tempPatchesExists = FALSE

\* this._validatePnpmUsage(pnpmArgs)
Validate ==
  /\ pc = "validate"
  /\ Len(validateLog) < MaxCalls
  /\ LET r == ValidatePnpmUsage(pnpmArgs, commandName)
     IN /\ pnpmArgs' = r.pnpmArgs
        /\ decision' = DecisionOf(r)
        /\ commandName' = r.commandName
        /\ terminal' = terminal \o r.out
        /\ validateLog' = Append(validateLog, [args |-> pnpmArgs, result |-> r])
  /\ UNCHANGED <<pc, config, processEnv, argv, constructorResult, rushConfiguration,
                 thisPnpmArgs, exitCode, spawnLog, fsLog, tempPatchesExists>>

NextClassify == Validate

SpecClassify == InitClassify /\ [][NextClassify]_vars

-----------------------------------------------------------------------------
(* The invocation again, for a wider set of environments and configured       *)
(* environment variables, in a workspace where every prerequisite holds       *)

ProcessEnvs == [EnvKeys -> {UNDEFINED, "base"}]

EnvironmentVariableEntries == [key : EnvKeys, value : {"override"}, override : BOOLEAN]

\* Object.entries(environmentVariables): at most n entries, no name twice
EnvironmentVariableLists(n) ==
  UNION { {l \in [1..k -> EnvironmentVariableEntries] :
             \A i, j \in 1..k : i # j => l[i].key # l[j].key} : k \in 0..n }

EnvironmentSettings ==
  [commonTempFolder : {"common/temp"},
   pnpmStorePath : {UNDEFINED, "store"},
   environmentVariables : EnvironmentVariableLists(MaxOverrides)]

EnvArgLists == {<<>>, <<"patch-commit">>}

InitEnv ==
  /\ pc = "new"
  /\ config \in Configurations(AllPrerequisitesHold, EnvironmentSettings)
  /\ processEnv \in ProcessEnvs
  /\ argv \in EnvArgLists
  /\ pnpmArgs = argv
  /\ decision = "none"
  /\ validateLog = <<>>
  /\ constructorResult = "none"
  /\ rushConfiguration = Unassigned
  /\ thisPnpmArgs = Unassigned
  /\ commandName = UNDEFINED
  /\ terminal = <<>>
  /\ exitCode = ExitCodeUnset
  /\ spawnLog = <<>>
  /\ fsLog = <<>>
  /\ tempPatchesExists = TRUE

NextEnv ==
  \/ Constructor
  \/ ExecuteStart
  \/ ExecuteSpawn
  \/ ExecutePost

SpecEnv == InitEnv /\ [][NextEnv]_vars

-----------------------------------------------------------------------------
(* Vocabulary of the properties *)

\* execute() has returned or has been left by an exception
InvocationEnded == pc \in {"done", "threw"}

\* a child process ran: spawnSync returned an exit status, or none (a signal)
ChildRan == \E i \in 1..Len(spawnLog) : spawnLog[i].outcome.kind \in {"exit", "null"}

\* the constructor's call of _validatePnpmUsage: its argument and its result
FirstCallMade == Len(validateLog) >= 1
FirstArgs == validateLog[1].args
FirstResult == validateLog[1].result

HasHelpFlag(args) == \E i \in 1..Len(args) : args[i] \in {"-h", "--help", "-?"}
SkipChecksPositions(args) == {i \in 1..Len(args) : args[i] = "--rush-skip-checks"}

\* args without its element at position k
WithoutPosition(args, k) == [i \in 1..(Len(args) - 1) |-> IF i < k THEN args[i] ELSE args[i + 1]]

NoLinesWritten(r) == r.out = <<>>
NoVerbRecorded(r) == r.commandName = UNDEFINED

-----------------------------------------------------------------------------
(* C1: when the classification of the arguments ends in Reject, pnpm is never *)
(* spawned, also when execute() is called after the constructor reported the  *)
(* rejection.                                                                 *)
C1_RejectedNeverSpawns ==
  constructorResult = "reject" => ~ChildRan

(* C2: at the end of an invocation whose classification was Reject, the       *)
(* process exit status is non-zero.                                           *)
C2_RejectedExitsNonZero ==
  (InvocationEnded /\ constructorResult = "reject") => exitCode # 0

(* C3: when a configuration prerequisite fails, pnpm is never spawned in the  *)
(* invocation and the exit status at its end is non-zero.                     *)
C3_PrerequisiteFailureAborts ==
  constructorResult = "prerequisite" =>
    /\ ~ChildRan
    /\ (InvocationEnded => exitCode # 0)

-----------------------------------------------------------------------------
(* C4: the post-invocation sync (copy of the patches folder, then sync of the *)
(* lockfile, then the advisory) runs if and only if the exit status after the *)
(* spawn is 0, the recorded verb is 'patch-commit' and the temporary patches  *)
(* folder exists; in every other case nothing is written to the file system.  *)
CommitAdvisoryWritten ==
  \E i \in 1..Len(terminal) :
    terminal[i].stream = "warning" /\ terminal[i].text = "Rush refreshed the pnpm patch files. Please commit this change to Git."

SpawnExitedWithZero ==
  /\ Len(spawnLog) = 1
  /\ spawnLog[1].outcome.kind = "exit"
  /\ spawnLog[1].outcome.status = 0

C4_SyncIffZeroPatchCommitAndFolder ==
  IF pc = "done" /\ SpawnExitedWithZero /\ exitCode = 0
     /\ commandName = "patch-commit" /\ tempPatchesExists
  THEN fsLog = <<"copyFiles", "syncFile">> /\ CommitAdvisoryWritten
  ELSE fsLog = <<>> /\ ~CommitAdvisoryWritten

C4_Witness ==
  /\ pc = "done"
  /\ argv = <<"patch-commit">>
  /\ fsLog = <<"copyFiles", "syncFile">>

-----------------------------------------------------------------------------
(* C5: for every list L, classifying [--rush-skip-checks] ++ L returns Allow  *)
(* with no recognized verb and no diagnostic, and the list handed to the      *)
(* spawn is exactly L.                                                        *)
C5_LeadingSkipChecksAllowsRest ==
  (FirstCallMade /\ Len(FirstArgs) >= 1 /\ FirstArgs[1] = "--rush-skip-checks") =>
    /\ DecisionOf(FirstResult) = "Allow"
    /\ NoVerbRecorded(FirstResult)
    /\ NoLinesWritten(FirstResult)
    /\ FirstResult.pnpmArgs = WithoutPosition(FirstArgs, 1)
    /\ constructorResult = "ok"
    /\ thisPnpmArgs = Assigned(WithoutPosition(argv, 1))
    /\ \A i \in 1..Len(spawnLog) : spawnLog[i].args = Assigned(WithoutPosition(argv, 1))

C5_Witness ==
  /\ argv = <<"--rush-skip-checks", "install", "--rush-skip-checks">>
  /\ Len(spawnLog) = 1
  /\ spawnLog[1].args = Assigned(<<"install", "--rush-skip-checks">>)

-----------------------------------------------------------------------------
(* C6: with no help flag, a first token matching the verb pattern and the     *)
(* bypass sentinel as second token, classification returns Allow and the      *)
(* resulting list is the original with index 1 deleted, every other token     *)
(* (later sentinels included) kept in order.                                  *)
C6_SkipChecksAfterVerbRemovesOneToken ==
  (/\ FirstCallMade
   /\ ~HasHelpFlag(FirstArgs)
   /\ Len(FirstArgs) >= 2
   /\ MatchesVerbPattern(FirstArgs[1])
   /\ FirstArgs[2] = "--rush-skip-checks") =>
    /\ DecisionOf(FirstResult) = "Allow"
    /\ FirstResult.pnpmArgs = WithoutPosition(FirstArgs, 2)

C6_Witness ==
  /\ FirstCallMade
  /\ FirstArgs = <<"install", "--rush-skip-checks", "--rush-skip-checks">>
  /\ FirstResult.pnpmArgs = <<"install", "--rush-skip-checks">>

-----------------------------------------------------------------------------
(* C7: with no help flag and the bypass sentinel only at index >= 2,          *)
(* classification returns Reject whatever the verb's policy class, leaves the *)
(* list unchanged and does not consult the policy table (no warning is        *)
(* written first).                                                            *)
PolicyTableLines ==
  {"The pnpm command is known to be incompatible with Rush's environment.",
   "The pnpm command is incompatible with Rush's environment. Use rush install or rush update.",
   "The pnpm command makes changes that may invalidate Rush's workspace state.",
   "Consider running rush install or rush update afterwards.",
   "The pnpm command has not been tested with Rush's environment. It may be incompatible."}

C7_MisplacedSkipChecksRejects ==
  (/\ FirstCallMade
   /\ ~HasHelpFlag(FirstArgs)
   /\ SkipChecksPositions(FirstArgs) # {}
   /\ \A i \in SkipChecksPositions(FirstArgs) : i >= 3) =>
    /\ DecisionOf(FirstResult) = "Reject"
    /\ FirstResult.pnpmArgs = FirstArgs
    /\ \A i \in 1..Len(FirstResult.out) :
         /\ FirstResult.out[i].stream # "warning"
         /\ FirstResult.out[i].text \notin PolicyTableLines

C7_Witness ==
  /\ FirstCallMade
  /\ FirstArgs = <<"update", "foo", "--rush-skip-checks">>
  /\ FirstResult.threw
  /\ FirstResult.pnpmArgs = FirstArgs

-----------------------------------------------------------------------------
(* C8: with no help flag, no bypass sentinel and a first token matching the   *)
(* verb pattern, the decision is a total function of the first token: import  *)
(* and the install family are rejected, the state-mutating verbs are allowed  *)
(* with a warning and the list unchanged, the known-safe verbs are allowed,   *)
(* every other verb is rejected.                                              *)
C8_Table(verb) ==
  IF verb \in {"import", "add", "install", "i", "install-test", "it"} THEN "Reject"
  ELSE IF verb \in {"link", "ln", "remove", "rm", "unlink", "update", "up"} THEN "AllowWithWarning"
  ELSE IF verb \in {"audit", "exec", "list", "ls", "outdated", "pack", "patch", "patch-commit",
                    "prune", "publish", "rebuild", "rb", "root", "run", "start", "store",
                    "test", "t", "why"} THEN "Allow"
  ELSE "Reject"

C8_DecisionIsFunctionOfVerb ==
  (/\ FirstCallMade
   /\ Len(FirstArgs) >= 1
   /\ ~HasHelpFlag(FirstArgs)
   /\ SkipChecksPositions(FirstArgs) = {}
   /\ MatchesVerbPattern(FirstArgs[1])) =>
    /\ DecisionOf(FirstResult) = C8_Table(FirstArgs[1])
    /\ (DecisionOf(FirstResult) = "AllowWithWarning" => FirstResult.pnpmArgs = FirstArgs)

C8_Witness ==
  /\ FirstCallMade
  /\ FirstArgs = <<"ln", "foo", "add">>
  /\ DecisionOf(FirstResult) = "AllowWithWarning"

-----------------------------------------------------------------------------
(* C9: a list whose first token is a known-safe verb is allowed whatever the  *)
(* remaining tokens are.                                                      *)
C9_KnownSafeAlwaysAllowed ==
  (/\ FirstCallMade
   /\ Len(FirstArgs) >= 1
   /\ FirstArgs[1] \in {"audit", "exec", "list", "ls", "outdated", "pack", "patch",
                        "patch-commit", "prune", "publish", "rebuild", "rb", "root", "run",
                        "start", "store", "test", "t", "why"}) =>
    DecisionOf(FirstResult) = "Allow"

(* C9, amended: a list whose first token is a known-safe verb is allowed,     *)
(* except that it is rejected when it has no help flag, its second token is   *)
(* not the bypass sentinel and the bypass sentinel occurs at a later          *)
(* position.                                                                  *)
C9_KnownSafeAllowedUnlessMisplacedSkipChecks ==
  (/\ FirstCallMade
   /\ Len(FirstArgs) >= 1
   /\ FirstArgs[1] \in {"audit", "exec", "list", "ls", "outdated", "pack", "patch",
                        "patch-commit", "prune", "publish", "rebuild", "rb", "root", "run",
                        "start", "store", "test", "t", "why"}) =>
    DecisionOf(FirstResult) =
      IF /\ ~HasHelpFlag(FirstArgs)
         /\ SkipChecksPositions(FirstArgs) # {}
         /\ 2 \notin SkipChecksPositions(FirstArgs)
      THEN "Reject"
      ELSE "Allow"

C9_Witness ==
  /\ FirstCallMade
  /\ FirstArgs = <<"rb", "foo", "--rush-skip-checks">>
  /\ DecisionOf(FirstResult) = "Reject"

-----------------------------------------------------------------------------
(* C10: a non-empty list whose first token is not the bypass sentinel and     *)
(* that holds -h, --help or -? at any position is allowed, unchanged and with *)
(* no verb recorded, whatever else it holds; so is the empty list.            *)
C10_HelpOrEmptyAllowed ==
  (/\ FirstCallMade
   /\ \/ FirstArgs = <<>>
      \/ /\ FirstArgs[1] # "--rush-skip-checks"
         /\ HasHelpFlag(FirstArgs)) =>
    /\ DecisionOf(FirstResult) = "Allow"
    /\ FirstResult.pnpmArgs = FirstArgs
    /\ NoVerbRecorded(FirstResult)
    /\ NoLinesWritten(FirstResult)

C10_Witness ==
  /\ FirstCallMade
  /\ FirstArgs = <<"install", "--rush-skip-checks", "-?">>
  /\ DecisionOf(FirstResult) = "Allow"
  /\ FirstResult.pnpmArgs = FirstArgs

-----------------------------------------------------------------------------
(* C11: a non-empty list with no help flag whose first token is neither the   *)
(* bypass sentinel nor a match of ^[a-z]+([a-z0-9-])*$ is rejected, unchanged *)
(* and with no verb recorded; the one exception is the one-token list ['-v']  *)
(* or ['--version'], which is allowed. A version flag followed by any further *)
(* token is rejected.                                                         *)
C11_NotAVerbRejectedExceptVersion ==
  (/\ FirstCallMade
   /\ Len(FirstArgs) >= 1
   /\ ~HasHelpFlag(FirstArgs)
   /\ FirstArgs[1] # "--rush-skip-checks"
   /\ ~MatchesVerbPattern(FirstArgs[1])) =>
    /\ DecisionOf(FirstResult) =
         IF FirstArgs \in {<<"-v">>, <<"--version">>} THEN "Allow" ELSE "Reject"
    /\ FirstResult.pnpmArgs = FirstArgs
    /\ NoVerbRecorded(FirstResult)

C11_Witness ==
  /\ FirstCallMade
  /\ FirstArgs = <<"--version", "foo">>
  /\ DecisionOf(FirstResult) = "Reject"
  /\ FirstResult.pnpmArgs = FirstArgs

-----------------------------------------------------------------------------
(* C12: in the environment passed to the child, for every declared entry      *)
(* (key, value, override) and every base environment, the value of key is the *)
(* base value if override is false and the base defines key, and the entry's  *)
(* value otherwise; also for the keys the merger sets itself.                 *)
DeclaredEntries == {config.environmentVariables[j] : j \in 1..Len(config.environmentVariables)}

C12_BasePreservedElseOverrideWins ==
  \A i \in 1..Len(spawnLog) : \A e \in DeclaredEntries :
    spawnLog[i].environmentMap[e.key] =
      IF ~e.override /\ processEnv[e.key] # UNDEFINED THEN processEnv[e.key] ELSE e.value

(* C12, amended: an entry with override true gives its value to the key. An   *)
(* entry with override false leaves the key as it is after the merger's own   *)
(* settings: the workspace folder for NPM_CONFIG_WORKSPACE_DIR, the store     *)
(* path for NPM_CONFIG_STORE_DIR when one is configured, otherwise the base   *)
(* value when the base defines the key; only a key with none of these gets    *)
(* the entry's value.                                                         *)
C12_ValueBeforeEntries(key) ==
  IF key = "NPM_CONFIG_WORKSPACE_DIR" THEN config.commonTempFolder
  ELSE IF key = "NPM_CONFIG_STORE_DIR" /\ config.pnpmStorePath # UNDEFINED THEN config.pnpmStorePath
  ELSE processEnv[key]

C12_OverrideWinsOrEarlierValueKept ==
  \A i \in 1..Len(spawnLog) : \A e \in DeclaredEntries :
    spawnLog[i].environmentMap[e.key] =
      IF ~e.override /\ C12_ValueBeforeEntries(e.key) # UNDEFINED
      THEN C12_ValueBeforeEntries(e.key)
      ELSE e.value

C12_Witness ==
  /\ Len(spawnLog) = 1
  /\ config.environmentVariables =
       <<[key |-> "KEY", value |-> "override", override |-> FALSE],
         [key |-> "NPM_CONFIG_WORKSPACE_DIR", value |-> "override", override |-> FALSE]>>
  /\ processEnv["KEY"] = "base"
  /\ processEnv["NPM_CONFIG_WORKSPACE_DIR"] = UNDEFINED
  /\ spawnLog[1].environmentMap["KEY"] = "base"
  /\ spawnLog[1].environmentMap["NPM_CONFIG_WORKSPACE_DIR"] = "common/temp"

-----------------------------------------------------------------------------
(* C13: in an allowed invocation, when the spawn completes without error and  *)
(* reports exit code c, the process exit status is c from then on, whatever c *)
(* is; the post-invocation sync does not change it.                           *)
C13_ExitStatusIsChildStatus ==
  (/\ constructorResult = "ok"
   /\ Len(spawnLog) >= 1
   /\ spawnLog[1].outcome.kind = "exit") =>
    /\ pc \in {"executed", "done"}
    /\ exitCode = spawnLog[1].outcome.status

C13_Witness ==
  /\ pc = "done"
  /\ constructorResult = "ok"
  /\ argv = <<"update", "--foo">>
  /\ spawnLog[1].outcome = [kind |-> "exit", status |-> 2]
  /\ exitCode = 2

-----------------------------------------------------------------------------
(* C14: when the spawn reports a spawn-level error or completes with a null   *)
(* exit status, the invocation ends in failure: the exit status stays the     *)
(* non-zero value set at the start of execute(), the post-invocation sync is  *)
(* not run and no second spawn is attempted.                                  *)
C14_SpawnFailureIsFatal ==
  (/\ Len(spawnLog) >= 1
   /\ spawnLog[1].outcome.kind \in {"error", "null"}) =>
    /\ pc = "threw"
    /\ exitCode = 1
    /\ fsLog = <<>>
    /\ ~CommitAdvisoryWritten
    /\ Len(spawnLog) = 1

C14_Witness ==
  /\ pc = "threw"
  /\ constructorResult = "ok"
  /\ argv = <<"patch-commit">>
  /\ tempPatchesExists
  /\ spawnLog[1].outcome.kind = "null"
  /\ exitCode = 1

-----------------------------------------------------------------------------
(* C15: from the start of execute() on, the process exit status is 0 only if, *)
(* in this invocation, the arguments were classified Allow or                 *)
(* AllowWithWarning and a spawn completed without error with status 0.        *)
C15_ZeroOnlyAfterAllowedSuccessfulSpawn ==
  (pc \in {"execute", "executed", "done", "threw"} /\ exitCode = 0) =>
    /\ decision \in {"Allow", "AllowWithWarning"}
    /\ SpawnExitedWithZero

-----------------------------------------------------------------------------
(* C16: whenever the first token is recognized as the verb (it matches the    *)
(* verb pattern and no earlier rule applied) and the decision is Allow or     *)
(* AllowWithWarning, the verb is retained for the post-invocation sync, also  *)
(* when the Allow comes from the bypass sentinel right after the verb: then   *)
(* 'patch-commit' with exit status 0 and the temporary patches folder present *)
(* triggers the patch sync.                                                   *)
VerbRecognizedAndAllowed ==
  /\ FirstCallMade
  /\ Len(FirstArgs) >= 1
  /\ ~HasHelpFlag(FirstArgs)
  /\ MatchesVerbPattern(FirstArgs[1])
  /\ DecisionOf(FirstResult) \in {"Allow", "AllowWithWarning"}

C16_AllowedVerbRetainedForSync ==
  (pc = "done" /\ VerbRecognizedAndAllowed) =>
    /\ commandName = FirstArgs[1]
    /\ (FirstArgs[1] = "patch-commit" /\ exitCode = 0 /\ tempPatchesExists)
         => fsLog = <<"copyFiles", "syncFile">>

-----------------------------------------------------------------------------
(* C17: for a list classified Allow or AllowWithWarning with no bypass token  *)
(* removed, classifying the resulting list a second time gives the same       *)
(* decision, the same recorded verb and the same, unchanged list.             *)
BypassTokenRemoved(args) ==
  \/ Len(args) >= 1 /\ args[1] = "--rush-skip-checks"
  \/ /\ Len(args) >= 2
     /\ ~HasHelpFlag(args)
     /\ MatchesVerbPattern(args[1])
     /\ args[2] = "--rush-skip-checks"

C17_SecondClassificationAgrees ==
  (/\ Len(validateLog) >= 2
   /\ DecisionOf(FirstResult) \in {"Allow", "AllowWithWarning"}
   /\ ~BypassTokenRemoved(FirstArgs)) =>
    /\ FirstResult.pnpmArgs = FirstArgs
    /\ validateLog[2].args = FirstArgs
    /\ validateLog[2].result.pnpmArgs = FirstArgs
    /\ DecisionOf(validateLog[2].result) = DecisionOf(FirstResult)
    /\ validateLog[2].result.commandName = FirstResult.commandName

C17_Witness ==
  /\ Len(validateLog) = 2
  /\ FirstArgs = <<"ln", "foo">>
  /\ DecisionOf(FirstResult) = "AllowWithWarning"
  /\ DecisionOf(validateLog[2].result) = "AllowWithWarning"
  /\ validateLog[2].result.commandName = "ln"

-----------------------------------------------------------------------------
(* C18: in the patch-commit sync the copy of the temporary patches folder     *)
(* comes before the lockfile sync, and the lockfile is never synced in an     *)
(* invocation that did not copy the patches first, in particular not when the *)
(* temporary patches folder is absent.                                        *)
C18_CopyBeforeLockfileSync ==
  /\ \A i \in 1..Len(fsLog) :
       fsLog[i] = "syncFile" => \E j \in 1..(i - 1) : fsLog[j] = "copyFiles"
  /\ ~tempPatchesExists => fsLog = <<>>

C18_Witness ==
  /\ pc = "done"
  /\ argv = <<"patch-commit", "--foo">>
  /\ Len(fsLog) = 2
  /\ fsLog[1] = "copyFiles"
  /\ fsLog[2] = "syncFile"

-----------------------------------------------------------------------------
(* C19: the environment merge changes only the keys it is told to: every key  *)
(* other than NPM_CONFIG_WORKSPACE_DIR, NPM_CONFIG_STORE_DIR and the keys of  *)
(* declared entries has its base value in the effective environment, and none *)
(* is added; NPM_CONFIG_STORE_DIR is touched only when a store path is        *)
(* configured; the base environment itself is not changed.                    *)
DeclaredKeys == {e.key : e \in DeclaredEntries}

OtherKeysKept(effective) ==
  \A k \in DOMAIN processEnv :
    k \notin {"NPM_CONFIG_WORKSPACE_DIR", "NPM_CONFIG_STORE_DIR"} \cup DeclaredKeys
      => effective[k] = processEnv[k]

C19_OnlyToldKeysChange ==
  /\ [](\A i \in 1..Len(spawnLog) :
          /\ DOMAIN spawnLog[i].environmentMap = DOMAIN processEnv
          /\ OtherKeysKept(spawnLog[i].environmentMap)
          /\ config.pnpmStorePath = UNDEFINED =>
               spawnLog[i].environmentMap["NPM_CONFIG_STORE_DIR"] = processEnv["NPM_CONFIG_STORE_DIR"])
  /\ [][processEnv' = processEnv]_vars

(* C19, amended: as above, but NPM_CONFIG_STORE_DIR is touched only when a    *)
(* store path is configured or it is the key of a declared entry.             *)
C19_OnlyToldKeysChangeStoreDeclared ==
  /\ [](\A i \in 1..Len(spawnLog) :
          /\ DOMAIN spawnLog[i].environmentMap = DOMAIN processEnv
          /\ OtherKeysKept(spawnLog[i].environmentMap)
          /\ (config.pnpmStorePath = UNDEFINED /\ "NPM_CONFIG_STORE_DIR" \notin DeclaredKeys) =>
               spawnLog[i].environmentMap["NPM_CONFIG_STORE_DIR"] = processEnv["NPM_CONFIG_STORE_DIR"])
  /\ [][processEnv' = processEnv]_vars

C19_Witness ==
  /\ Len(spawnLog) = 1
  /\ config.pnpmStorePath = UNDEFINED
  /\ DeclaredKeys = {"NPM_CONFIG_WORKSPACE_DIR"}
  /\ processEnv = [k \in EnvKeys |-> "base"]
  /\ spawnLog[1].environmentMap["KEY"] = "base"
  /\ spawnLog[1].environmentMap["NPM_CONFIG_STORE_DIR"] = "base"

====
